---------------------------- MODULE Spec2Model ----------------------------
(***************************************************************************)
(* The step loop, the response normalizer, the model gateway and the       *)
(* allowed-root test of código/maestro.py.                                 *)
(*                                                                         *)
(* Python values are modelled as tagged records [k, v]:                    *)
(*   None  -> [k |-> "null", v |-> ""]                                     *)
(*   str   -> [k |-> "str",  v |-> <the text, a TLA+ string>]              *)
(*   int   -> [k |-> "num",  v |-> <its digits>]                           *)
(*   bool  -> [k |-> "bool", v |-> "true" | "false"]                       *)
(*   list  -> [k |-> "arr",  v |-> <sequence of values>]                   *)
(*   dict  -> [k |-> "obj",  v |-> <function from keys to values>]         *)
(* Text is handled character by character (Len, SubSeq and \o on strings). *)
(***************************************************************************)
EXTENDS Integers, Sequences, FiniteSets, TLC

-----------------------------------------------------------------------------
(* Python values *)

JNull == [k |-> "null", v |-> ""]
JStr(s) == [k |-> "str", v |-> s]
JNum(d) == [k |-> "num", v |-> d]
JBool(b) == [k |-> "bool", v |-> b]
JArr(items) == [k |-> "arr", v |-> items]
JObj(f) == [k |-> "obj", v |-> f]

EmptyMap == [key \in {} |-> JNull]
EmptyObj == JObj(EmptyMap)

\* d[key] = val: a later value replaces an earlier one.
Put(f, key, val) == (key :> val) @@ f

IsDict(x) == x.k = "obj"
IsStr(x) == x.k = "str"
IsList(x) == x.k = "arr"

\* Python truthiness: None, "", 0, False, [] and {} are falsy.
Truthy(x) ==
    CASE x.k = "null" -> FALSE
      [] x.k = "str"  -> x.v # ""
      [] x.k = "num"  -> x.v # "0"
      [] x.k = "bool" -> x.v = "true"
      [] x.k = "arr"  -> Len(x.v) > 0
      [] x.k = "obj"  -> DOMAIN x.v # {}

\* `key in d` for a dict d.
HasKey(d, key) == IsDict(d) /\ key \in DOMAIN d.v

\* d.get(key) and d.get(key, default) for a dict d.
Get(d, key) == IF key \in DOMAIN d.v THEN d.v[key] ELSE JNull
GetOr(d, key, default) == IF key \in DOMAIN d.v THEN d.v[key] ELSE default

-----------------------------------------------------------------------------
(* The texts a model writes in the runs explored *)

\* What the model writes, by name.
ReadText(path) ==
    "{\"status\":\"ok\",\"action\":{\"type\":\"leia_arquivo\",\"parameters\":{\"path\":\""
    \o path \o "\"}},\"memory\":{\"n\":\"1\"}}"

ReadItem == "{\"type\":\"leia_arquivo\",\"parameters\":{\"path\":\"f\"}}"

ModelText(name) ==
    CASE name = "read_f"       -> ReadText("f")
      [] name = "read_abs_out" -> ReadText("/s")
      [] name = "read_up_out"  -> ReadText("../s")
      [] name = "read_abs_sib" -> ReadText("/rx/s")
      [] name = "read_up_sib"  -> ReadText("../rx/s")
      [] name = "read_missing" -> ReadText("nofile")
      [] name = "no_path" ->
           "{\"status\":\"ok\",\"action\":{\"type\":\"leia_arquivo\",\"parameters\":{}},\"memory\":{}}"
      [] name = "finalizar" ->
           "{\"status\":\"ok\",\"action\":{\"type\":\"finalizar\",\"parameters\":{\"content\":\"<p>\"}},\"memory\":{}}"
      [] name = "unknown" ->
           "{\"status\":\"ok\",\"action\":{\"type\":\"dance\",\"parameters\":{}},\"memory\":{\"n\":\"3\"}}"
      [] name = "no_action" ->
           "{\"status\":\"ok\",\"action\":null,\"memory\":{\"n\":\"2\"}}"
      [] name = "done" ->
           "{\"status\":\"done\",\"action\":null,\"memory\":{}}"
      [] name = "actions" ->
           "{\"status\":\"ok\",\"actions\":[" \o ReadItem \o "," \o ReadItem \o ","
           \o ReadItem
           \o ",{\"type\":\"finalizar\",\"parameters\":{\"content\":\"<p>\"}}],\"memory\":{}}"
      [] name = "no_memory" ->
           "{\"status\":\"ok\",\"action\":null}"
      [] name = "prose" ->
           "I cannot do that"
      [] name = "embedded" ->
           "Sure: {\"status\":\"ok\",\"action\":null} Bye"
      [] name = "array" ->
           "[1]"
      [] name = "bad_action" ->
           "{\"status\":\"ok\",\"action\":\"go\",\"memory\":{}}"

TextNames ==
    {"read_f", "read_abs_out", "read_up_out", "read_abs_sib", "read_up_sib",
     "read_missing", "no_path", "finalizar", "unknown", "no_action", "done",
     "actions", "no_memory", "prose", "embedded", "array", "bad_action"}

-----------------------------------------------------------------------------
(* json.loads and json.dumps, on the subset of JSON the replies use:       *)
(* objects, arrays, strings that hold no quote and no backslash (so no     *)
(* escape is read or written), unsigned integers, null, true, false, and   *)
(* blanks between tokens.                                                  *)

Ch(s, i) == IF i >= 1 /\ i <= Len(s) THEN SubSeq(s, i, i) ELSE ""

Digits == {"0", "1", "2", "3", "4", "5", "6", "7", "8", "9"}

RECURSIVE SkipWs(_, _)
SkipWs(s, i) == IF Ch(s, i) = " " THEN SkipWs(s, i + 1) ELSE i

\* Index of the first `c` at or after i, 0 if there is none.
IndexFrom(s, c, i) ==
    LET at == {j \in i..Len(s) : Ch(s, j) = c}
    IN  IF at = {} THEN 0 ELSE CHOOSE j \in at : \A x \in at : j <= x

\* Index of the last `c` at or before i, 0 if there is none.
IndexBack(s, c, i) ==
    LET at == {j \in 1..i : Ch(s, j) = c}
    IN  IF at = {} THEN 0 ELSE CHOOSE j \in at : \A x \in at : j >= x

RECURSIVE EndOfDigits(_, _)
EndOfDigits(s, i) == IF Ch(s, i) \in Digits THEN EndOfDigits(s, i + 1) ELSE i

StartsAt(s, i, word) ==
    /\ i + Len(word) - 1 <= Len(s)
    /\ SubSeq(s, i, i + Len(word) - 1) = word

ParseFail == [ok |-> FALSE, val |-> JNull, nxt |-> 0]
Parsed(val, nxt) == [ok |-> TRUE, val |-> val, nxt |-> nxt]

\* The string literal whose opening quote is at i - 1: its text runs to the
\* next quote.
ParseString(s, i) ==
    LET e == IndexFrom(s, "\"", i)
    IN  IF e = 0 THEN [ok |-> FALSE, val |-> "", nxt |-> 0]
        ELSE [ok |-> TRUE, val |-> SubSeq(s, i, e - 1), nxt |-> e + 1]

RECURSIVE ParseValue(_, _)
RECURSIVE ParseMembers(_, _, _)
RECURSIVE ParseElements(_, _, _)

\* One JSON value starting at or after i (blanks skipped); nxt is the index
\* after it.
ParseValue(s, i0) ==
    LET i == SkipWs(s, i0)
        c == Ch(s, i)
    IN  CASE c = "{" ->
               IF Ch(s, SkipWs(s, i + 1)) = "}"
               THEN Parsed(EmptyObj, SkipWs(s, i + 1) + 1)
               ELSE ParseMembers(s, i + 1, EmptyMap)
          [] c = "[" ->
               IF Ch(s, SkipWs(s, i + 1)) = "]"
               THEN Parsed(JArr(<<>>), SkipWs(s, i + 1) + 1)
               ELSE ParseElements(s, i + 1, <<>>)
          [] c = "\"" ->
               LET ps == ParseString(s, i + 1)
               IN  IF ~ps.ok THEN ParseFail ELSE Parsed(JStr(ps.val), ps.nxt)
          [] c \in Digits ->
               LET e == EndOfDigits(s, i)
               IN  Parsed(JNum(SubSeq(s, i, e - 1)), e)
          [] OTHER ->
               IF StartsAt(s, i, "null") THEN Parsed(JNull, i + 4)
               ELSE IF StartsAt(s, i, "true") THEN Parsed(JBool("true"), i + 4)
               ELSE IF StartsAt(s, i, "false") THEN Parsed(JBool("false"), i + 5)
               ELSE ParseFail

\* The members of an object, from the first key on; acc holds those read.
ParseMembers(s, i0, acc) ==
    LET i == SkipWs(s, i0)
        ps == ParseString(s, i + 1)
    IN  IF Ch(s, i) # "\"" \/ ~ps.ok THEN ParseFail
        ELSE LET key == ps.val
                 colon == SkipWs(s, ps.nxt)
             IN  IF Ch(s, colon) # ":" THEN ParseFail
                 ELSE LET pv == ParseValue(s, colon + 1)
                      IN  IF ~pv.ok THEN ParseFail
                          ELSE LET j == SkipWs(s, pv.nxt)
                                   acc2 == Put(acc, key, pv.val)
                               IN  CASE Ch(s, j) = "," -> ParseMembers(s, j + 1, acc2)
                                     [] Ch(s, j) = "}" -> Parsed(JObj(acc2), j + 1)
                                     [] OTHER -> ParseFail

\* The elements of an array, from the first one on.
ParseElements(s, i0, acc) ==
    LET pv == ParseValue(s, i0)
    IN  IF ~pv.ok THEN ParseFail
        ELSE LET j == SkipWs(s, pv.nxt)
                 acc2 == Append(acc, pv.val)
             IN  CASE Ch(s, j) = "," -> ParseElements(s, j + 1, acc2)
                   [] Ch(s, j) = "]" -> Parsed(JArr(acc2), j + 1)
                   [] OTHER -> ParseFail

\* json.loads(s): ok is FALSE where json.loads raises (no value, or text
\* left after the value).
ParseJson(s) ==
    LET pv == ParseValue(s, 1)
    IN  IF pv.ok /\ SkipWs(s, pv.nxt) = Len(s) + 1
        THEN [ok |-> TRUE, val |-> pv.val]
        ELSE [ok |-> FALSE, val |-> JNull]

\* The texts of the model are parsed once.
KnownTexts == {ModelText(name) : name \in TextNames}
ParsedTexts == [t \in KnownTexts |-> ParseJson(t)]

json_loads(s) == IF s \in KnownTexts THEN ParsedTexts[s] ELSE ParseJson(s)

\* json.dumps(x): ", " between items, ": " after a key. The keys of a dict
\* are written in a fixed order.
Quote(s) == "\"" \o s \o "\""

RECURSIVE json_dumps(_)
RECURSIVE DumpItems(_, _)
RECURSIVE DumpMembers(_, _)

json_dumps(x) ==
    CASE x.k = "null" -> "null"
      [] x.k = "str"  -> Quote(x.v)
      [] x.k = "num"  -> x.v
      [] x.k = "bool" -> x.v
      [] x.k = "arr"  -> "[" \o DumpItems(x.v, 1) \o "]"
      [] x.k = "obj"  -> "{" \o DumpMembers(x.v, DOMAIN x.v) \o "}"

DumpItems(items, i) ==
    IF i > Len(items) THEN ""
    ELSE json_dumps(items[i])
         \o (IF i < Len(items) THEN ", " ELSE "")
         \o DumpItems(items, i + 1)

DumpMembers(f, keys) ==
    IF keys = {} THEN ""
    ELSE LET key == CHOOSE c \in keys : TRUE
         IN  Quote(key) \o ": " \o json_dumps(f[key])
             \o (IF keys # {key} THEN ", " ELSE "")
             \o DumpMembers(f, keys \ {key})

-----------------------------------------------------------------------------
(* Response normalizer *)

Returned(x) == [raised |-> FALSE, val |-> x]
Raised == [raised |-> TRUE, val |-> JNull]

\* {'status': 'ok', 'plan': [], 'action': None, 'memory': {<key>: <value>}}
WrappedResponse(key, value) ==
    JObj([status |-> JStr("ok"), plan |-> JArr(<<>>), action |-> JNull,
          memory |-> JObj(key :> value)])

\* A block that ends at the first '}' after its '{'.
FindBraceBlockShort(r) ==
    LET s_index == IndexFrom(r, "{", 1)
        e_index == IndexFrom(r, "}", 1)
    IN  IF s_index >= 1 /\ e_index > s_index
        THEN json_loads(SubSeq(r, s_index, e_index))
        ELSE [ok |-> FALSE, val |-> JNull]

\* r[s_index:e_index + 1] parsed, for the first '{' and the last '}' of r;
\* ok is FALSE when there is no such block or it is not JSON.
FindBraceBlock(r) ==
    LET s_index == IndexFrom(r, "{", 1)
        e_index == IndexBack(r, "}", Len(r))
    IN  IF s_index >= 1 /\ e_index > s_index
        THEN json_loads(SubSeq(r, s_index, e_index))
        ELSE [ok |-> FALSE, val |-> JNull]

\* The blocks of the model's texts are found once.
BraceBlocks == [t \in KnownTexts |-> FindBraceBlock(t)]

BraceBlock(r) == IF r \in KnownTexts THEN BraceBlocks[r] ELSE FindBraceBlock(r)

\* d with 'memory' set to {} when it has none.
WithMemory(d) ==
    IF "memory" \in DOMAIN d.v THEN d ELSE JObj(Put(d.v, "memory", EmptyObj))

\* The text of choices[0]: message.content, else text; None when the reply
\* has no such shape.
ChoiceContent(r) ==
    IF /\ "choices" \in DOMAIN r.v
       /\ IsList(r.v["choices"])
       /\ Len(r.v["choices"].v) > 0
    THEN LET choice0 == r.v["choices"].v[1]
         IN  IF ~IsDict(choice0) THEN JNull
             ELSE IF IsDict(Get(choice0, "message"))
                     /\ HasKey(Get(choice0, "message"), "content")
                  THEN Get(Get(choice0, "message"), "content")
             ELSE IF HasKey(choice0, "text") THEN Get(choice0, "text")
             ELSE JNull
    ELSE JNull

\* A str branch that wraps every text as raw_text, JSON or not.
TextResponseWrapped(r, parsed, block) ==
    WrappedResponse("raw_text", JStr(r))

\* The str branch, given what json.loads and the brace block yield: the
\* parsed value as it is, else the block, else the text as raw_text.
TextResponse(r, parsed, block) ==
    IF parsed.ok THEN parsed.val
    ELSE IF block.ok THEN block.val
    ELSE WrappedResponse("raw_text", JStr(r))

NormalizeText(r) == TextResponse(r, json_loads(r), BraceBlock(r))

\* The content of a choices reply: a parsed dict gets its 'memory', any other
\* parsed value is wrapped as raw_parsed, unparsable text as raw_text.
ChoiceResponse(content_text, parsed, block) ==
    IF parsed.ok
    THEN IF IsDict(parsed.val)
         THEN WithMemory(parsed.val)
         ELSE WrappedResponse("raw_parsed", parsed.val)
    ELSE IF block.ok /\ IsDict(block.val)
         THEN WithMemory(block.val)
    ELSE WrappedResponse("raw_text", JStr(content_text))

NormalizeChoice(content_text) ==
    ChoiceResponse(content_text, json_loads(content_text), BraceBlock(content_text))

\* content normalised to a string: itself, its own 'content', or its JSON.
ContentText(content) ==
    IF IsStr(content) THEN content
    ELSE IF IsDict(content) /\ HasKey(content, "content")
         THEN Get(content, "content")
    ELSE JStr(json_dumps(content))

\* The dict branch, given the content found at choices[0].
DictResponse(r, content, content_text) ==
    IF content # JNull /\ IsStr(content_text)
    THEN NormalizeChoice(content_text.v)
    ELSE WithMemory(r)

ContentResponse(r, content) == DictResponse(r, content, ContentText(content))

NormalizeDict(r) == ContentResponse(r, ChoiceContent(r))

ensure_structured_response(r) ==
    CASE r = JNull -> Raised
      [] IsStr(r)  -> Returned(NormalizeText(r.v))
      [] IsDict(r) -> Returned(NormalizeDict(r))
      [] OTHER     -> Returned(json_loads(json_dumps(r)).val)

-----------------------------------------------------------------------------
(* Model gateway *)

\* d[key] when d is a dict that has the key, else None.
Field(d, key) == IF HasKey(d, key) THEN d.v[key] ELSE JNull

\* xs[0] when xs is a list that has it, else None.
First(xs) == IF IsList(xs) /\ Len(xs.v) > 0 THEN xs.v[1] ELSE JNull

\* raw['candidates'][0]['content']['parts'][0]['text'], None when the reply
\* has no such shape.
CandidateText(raw) ==
    Field(First(Field(Field(First(Field(raw, "candidates")), "content"), "parts")), "text")

\* One call of invoke_model: it raises when the connection has no endpoint,
\* and otherwise yields what the HTTP call yields (a value, or an exception).
invoke_model(cfg, http) ==
    IF cfg.endpoint = "" THEN Raised ELSE http

\* A gateway that takes the whole reply for the output in both modes.
AttemptOutputWhole(res, is_generate_content) ==
    IF res.raised THEN JNull ELSE res.val

\* What an attempt is taken to have yielded: the candidate text in
\* generate-content mode, the reply itself otherwise; None after an exception.
AttemptOutput(res, is_generate_content) ==
    IF res.raised THEN JNull
    ELSE IF is_generate_content THEN CandidateText(res.val)
    ELSE res.val

\* Whether the attempt's output is returned rather than retried.
Usable(out, is_generate_content) ==
    IF is_generate_content THEN Truthy(out) ELSE out # JNull

\* The attempts from `attempt` on; https[i] is what the i-th HTTP call
\* yields. slept lists the time.sleep arguments.
RECURSIVE RetryFrom(_, _, _, _, _, _)
RECURSIVE RetryWith(_, _, _, _, _, _, _)
\* A retry loop that waits 2 seconds whatever the attempt.
RetryWithFlatBackoff(cfg, https, is_generate_content, max_retries, attempt, slept, out) ==
    IF Usable(out, is_generate_content)
    THEN [raised |-> FALSE, val |-> out, attempts |-> attempt, slept |-> slept]
    ELSE IF attempt < max_retries
    THEN RetryFrom(cfg, https, is_generate_content, max_retries,
                   attempt + 1, Append(slept, 2))
    ELSE [raised |-> TRUE, val |-> JNull, attempts |-> attempt, slept |-> slept]

RetryWith(cfg, https, is_generate_content, max_retries, attempt, slept, out) ==
    IF Usable(out, is_generate_content)
    THEN [raised |-> FALSE, val |-> out, attempts |-> attempt, slept |-> slept]
    ELSE IF attempt < max_retries
    THEN RetryFrom(cfg, https, is_generate_content, max_retries,
                   attempt + 1, Append(slept, 2 * attempt))
    ELSE [raised |-> TRUE, val |-> JNull, attempts |-> attempt, slept |-> slept]

RetryFrom(cfg, https, is_generate_content, max_retries, attempt, slept) ==
    RetryWith(cfg, https, is_generate_content, max_retries, attempt, slept,
              AttemptOutput(invoke_model(cfg, https[attempt]), is_generate_content))

\* range(1, max_retries + 1) is empty for max_retries < 1: the function then
\* falls off its loop and returns None without any attempt.
invoke_model_with_retries(cfg, https, is_generate_content, max_retries) ==
    IF max_retries < 1
    THEN [raised |-> FALSE, val |-> JNull, attempts |-> 0, slept |-> <<>>]
    ELSE RetryFrom(cfg, https, is_generate_content, max_retries, 1, <<>>)

-----------------------------------------------------------------------------
(* Paths. A path is its text; "/" separates its segments. *)

isabs(p) == Ch(p, 1) = "/"

\* os.path.join(base, p)
join(base, p) ==
    IF isabs(p) THEN p
    ELSE IF base = "" \/ Ch(base, Len(base)) = "/" THEN base \o p
    ELSE base \o "/" \o p

\* The segments of p from index i on.
RECURSIVE SegmentsFrom(_, _)
SegmentsFrom(p, i) ==
    IF i > Len(p) THEN <<>>
    ELSE LET e == IndexFrom(p, "/", i)
         IN  IF e = 0 THEN <<SubSeq(p, i, Len(p))>>
             ELSE <<SubSeq(p, i, e - 1)>> \o SegmentsFrom(p, e + 1)

\* Empty and "." segments dropped, "seg/.." pairs removed (".." at the root
\* stays at the root).
RECURSIVE Collapse(_, _)
Collapse(segs, acc) ==
    IF segs = <<>> THEN acc
    ELSE LET seg == Head(segs)
         IN  CASE seg \in {"", "."} -> Collapse(Tail(segs), acc)
               [] seg = ".." ->
                    Collapse(Tail(segs),
                             IF acc = <<>> THEN acc ELSE SubSeq(acc, 1, Len(acc) - 1))
               [] OTHER -> Collapse(Tail(segs), Append(acc, seg))

RECURSIVE Rooted(_)
Rooted(segs) == IF segs = <<>> THEN "" ELSE "/" \o Head(segs) \o Rooted(Tail(segs))

\* An absolute path normalised.
Normalised(p) ==
    LET segs == Collapse(SegmentsFrom(p, 1), <<>>)
    IN  IF segs = <<>> THEN "/" ELSE Rooted(segs)

\* The paths the runs explored look for are normalised once.
KnownPaths ==
    {join(base, ask) : base \in {"/r", "/c"},
                       ask \in {"f", "/s", "../s", "/rx/s", "../rx/s", "nofile"}}
    \cup {"/r", "/c"}
NormalisedPaths == [p \in KnownPaths |-> Normalised(p)]

\* os.path.abspath(p) for an absolute p.
abspath(p) == IF p \in KnownPaths THEN NormalisedPaths[p] ELSE Normalised(p)

\* resolved.startswith(allowed_resolved)
startswith(s, prefix) ==
    Len(prefix) <= Len(s) /\ SubSeq(s, 1, Len(prefix)) = prefix

-----------------------------------------------------------------------------
(* Bounds and program constants *)

\* Largest limite_passos a configuration declares.
MaxLimite == 3

\* Largest number of attempts of one gateway call whose HTTP call fails before
\* the endpoint answers.
MaxFailedAttempts == 1

\* Largest limite_passos of the runs followed to their end.
MaxLiveLimite == 2

\* Largest max_retries invoke_model_with_retries is applied with on its own.
MaxAttempts == 3

\* The step ceiling of the loop.
StepCeiling == 1000

\* max_retries of the calls the loop makes.
MaxRetries == 5

-----------------------------------------------------------------------------
(* The run's surroundings: configuration, files, what the endpoint replies *)

GenEndpoint == "https://g/v1/m:generateContent"
ChatEndpoint == "https://a/chat"

\* A configuration file, by what main reads of it: `solicitacao` is whether
\* the request file is named and exists; `limite` is conexão.limite_passos
\* when has_limite; relatorio and caminho_permitido are "" when absent.
Config(endpoint, plataforma, has_limite, limite, relatorio) ==
    [solicitacao |-> TRUE, conexao |-> TRUE, autenticacao |-> TRUE,
     plataforma |-> plataforma, endpoint |-> endpoint,
     has_limite |-> has_limite, limite |-> limite,
     relatorio |-> relatorio, caminho_permitido |-> "/r"]

UsableConfigs(limites) ==
    {Config(e[1], e[2], hl[1], hl[2], rel) :
        e \in {<<GenEndpoint, "Google Gemini">>, <<ChatEndpoint, "Azure OpenAI">>},
        hl \in {<<FALSE, 0>>} \cup {<<TRUE, l>> : l \in limites},
        rel \in {"", "out.html"}}

BaseConfig == Config(ChatEndpoint, "Azure OpenAI", TRUE, 2, "out.html")

BrokenConfigs ==
    {[BaseConfig EXCEPT !.solicitacao = FALSE],
     [BaseConfig EXCEPT !.conexao = FALSE],
     [BaseConfig EXCEPT !.autenticacao = FALSE],
     [BaseConfig EXCEPT !.plataforma = ""],
     [BaseConfig EXCEPT !.plataforma = "Other"],
     [BaseConfig EXCEPT !.endpoint = ""]}

\* The directory of the configuration file.
config_dir == "/c"

\* The files and directories of the machine; one file lies under the allowed
\* root /r, one under /rx, whose name starts like the root's, one under /.
Files == {"/r/f", "/rx/s", "/s"}
Dirs == {"/", "/r", "/rx", "/c"}

exists(p) == abspath(p) \in Files \cup Dirs

\* base64 of the file's bytes ("inside", "secret", "outer").
read_file_base64(p) ==
    CASE p = "/r/f"  -> "aW5zaWRl"
      [] p = "/rx/s" -> "c2VjcmV0"
      [] p = "/s"    -> "b3V0ZXI="
      [] OTHER       -> ""

\* A reply is a text in one of the shapes an endpoint answers in, or a body
\* without any text.
Shapes == {"plain", "candidate", "chat"}
AllReplies ==
    (Shapes \X TextNames) \cup {<<"empty", "null">>, <<"empty", "candidates">>}

\* What http_post_json returns for a reply: the body parsed when it is JSON,
\* else its text.
Raw(reply) ==
    CASE reply[1] = "plain" ->
           IF json_loads(ModelText(reply[2])).ok
           THEN json_loads(ModelText(reply[2])).val
           ELSE JStr(ModelText(reply[2]))
      [] reply[1] = "candidate" ->
           JObj([candidates |-> JArr(<<JObj([content |->
               JObj([parts |-> JArr(<<JObj([text |-> JStr(ModelText(reply[2]))])>>)])])>>)])
      [] reply[1] = "chat" ->
           JObj([choices |-> JArr(<<JObj([message |->
               JObj([role |-> JStr("assistant"),
                     content |-> JStr(ModelText(reply[2]))])])>>)])
      [] reply = <<"empty", "null">> -> JNull
      [] reply = <<"empty", "candidates">> -> JObj([candidates |-> JArr(<<>>)])

RawTable == [reply \in AllReplies |-> Raw(reply)]

-----------------------------------------------------------------------------
(* main: what it derives from the configuration *)

\* is_generate_content: ':generateContent' in endpoint
is_generate_content(cfg) ==
    \E i \in 1..Len(cfg.endpoint) : StartsAt(cfg.endpoint, i, ":generateContent")

\* max_requests: int(limite_passos) when declared, else 1.
max_requests(cfg) == IF cfg.has_limite THEN cfg.limite ELSE 1

\* allowed_root and whether caminho_permitido was absolute.
allowed_root_from_absolute(cfg) ==
    cfg.caminho_permitido # "" /\ isabs(cfg.caminho_permitido)

allowed_root(cfg) ==
    IF cfg.caminho_permitido = "" THEN config_dir
    ELSE IF isabs(cfg.caminho_permitido) THEN cfg.caminho_permitido
    ELSE join(config_dir, cfg.caminho_permitido)

\* A main that takes any plataforma, a missing one too.
ConfigErrorLax(cfg) ==
    CASE ~cfg.solicitacao -> "solicitacao"
      [] ~cfg.conexao -> "conexao"
      [] ~cfg.autenticacao -> "autenticacao"
      [] OTHER -> ""

\* Why main stops before the first call: "" when the configuration has all it
\* needs.
ConfigError(cfg) ==
    CASE ~cfg.solicitacao -> "solicitacao"
      [] ~cfg.conexao -> "conexao"
      [] ~cfg.autenticacao -> "autenticacao"
      [] cfg.plataforma \notin {"Google Gemini", "Azure OpenAI"} -> "plataforma"
      [] OTHER -> ""

\* str(n) for n >= 0.
RECURSIVE IntToStr(_)
IntToStr(n) ==
    IF n < 10 THEN SubSeq("0123456789", n + 1, n + 1)
    ELSE IntToStr(n \div 10) \o SubSeq("0123456789", (n % 10) + 1, (n % 10) + 1)

Max(a, b) == IF a >= b THEN a ELSE b

\* The context every follow-up payload is given: file_tree, prompt,
\* orchestrator, request, config, plan, assigned in this order over the
\* payload's own keys.
InitialRequest == "Por favor responda com objeto JSON estruturado"

Augmented(payload, response) ==
    JObj(Put(Put(Put(Put(Put(Put(payload.v,
        "file_tree", JStr("tree")),
        "prompt", JStr("prompt")),
        "orchestrator", JStr("orchestrator")),
        "request", JStr(InitialRequest)),
        "config", JStr("config")),
        "plan", Get(response, "plan")))

InitialPayload ==
    JObj([orchestrator |-> JStr("orchestrator"), config |-> JStr("config"),
          prompt |-> JStr("prompt"), file_tree |-> JStr("tree"),
          request |-> JStr(InitialRequest)])

\* An update that sends an empty memory.
UpdatePayloadForgetful(action, attachments, memory, total_steps, response) ==
    Augmented(JObj([update |-> JStr("action_executed"),
                    executed_action |-> action,
                    attachments |-> attachments,
                    memory |-> EmptyObj,
                    totalSteps |-> JNum(IntToStr(total_steps))]),
              response)

UpdatePayload(action, attachments, memory, total_steps, response) ==
    Augmented(JObj([update |-> JStr("action_executed"),
                    executed_action |-> action,
                    attachments |-> attachments,
                    memory |-> memory,
                    totalSteps |-> JNum(IntToStr(total_steps))]),
              response)

AskPayload(memory, requests_made, cfg, response) ==
    Augmented(JObj([request |-> JStr("next_steps"),
                    memory |-> memory,
                    max_steps |-> JNum(IntToStr(Max(0, max_requests(cfg) - requests_made)))]),
              response)

\* An error response that forgot the memory.
ErrorResponseBlank(memory) ==
    JObj([status |-> JStr("error"), plan |-> JArr(<<>>), action |-> JNull,
          memory |-> EmptyObj])

\* An error response that names an action to carry out.
ErrorResponseWithAction(memory) ==
    JObj([status |-> JStr("error"), plan |-> JArr(<<>>),
          action |-> JObj([type |-> JStr("leia_arquivo"),
                           parameters |-> JObj([path |-> JStr("f")])]),
          memory |-> memory])

\* The response put in place of a failed update.
ErrorResponse(memory) ==
    JObj([status |-> JStr("error"), plan |-> JArr(<<>>), action |-> JNull,
          memory |-> memory])

-----------------------------------------------------------------------------
(* main: the first reply *)

\* resp of the first call in generate-content mode, given the candidate
\* text: the text parsed, or its brace block, or the text as raw_text; the raw
\* reply itself when it carries no text. A text that is no str makes
\* json.loads and then .find raise, which ends the run.
\* A first call that takes a reply without candidate text for a failure.
FirstParsedStrict(raw_resp, out_text, parsed, block) ==
    IF ~Truthy(out_text) THEN Raised
    ELSE IF ~IsStr(out_text) THEN Raised
    ELSE IF parsed.ok THEN Returned(parsed.val)
    ELSE IF block.ok THEN Returned(block.val)
    ELSE Returned(WrappedResponse("raw_text", out_text))

FirstParsed(raw_resp, out_text, parsed, block) ==
    IF ~Truthy(out_text) THEN Returned(raw_resp)
    ELSE IF ~IsStr(out_text) THEN Raised
    ELSE IF parsed.ok THEN Returned(parsed.val)
    ELSE IF block.ok THEN Returned(block.val)
    ELSE Returned(WrappedResponse("raw_text", out_text))

FirstText(raw_resp, out_text) ==
    FirstParsed(raw_resp, out_text,
                IF IsStr(out_text) THEN json_loads(out_text.v) ELSE ParseFail,
                IF IsStr(out_text) THEN BraceBlock(out_text.v) ELSE ParseFail)

FirstGenerateContent(raw_resp) == FirstText(raw_resp, CandidateText(raw_resp))

\* A first call whose failure is swallowed and taken for an empty reply.
FirstGotLenient(cfg, res) ==
    IF res.raised THEN Returned(EmptyObj)
    ELSE IF is_generate_content(cfg) THEN FirstGenerateContent(res.val)
    ELSE res

\* resp of the first call: raised when the call failed.
FirstGot(cfg, res) ==
    IF res.raised THEN Raised
    ELSE IF is_generate_content(cfg) THEN FirstGenerateContent(res.val)
    ELSE res

FirstResp(cfg, http) == FirstGot(cfg, invoke_model(cfg, http))

-----------------------------------------------------------------------------
(* main: one action *)

\* A loop that also took the first entry of an 'actions' list.
CurrentActionOfBatch(response) ==
    IF ~IsDict(response) THEN JNull
    ELSE IF Truthy(Get(response, "action")) THEN Get(response, "action")
    ELSE First(Get(response, "actions"))

\* action = response.get('action') if isinstance(response, dict) else None
CurrentAction(response) ==
    IF IsDict(response) THEN Get(response, "action") ELSE JNull

\* total_steps after the loop has looked at `action`.
StepsAfter(total_steps, action) ==
    IF Truthy(action) THEN total_steps + 1 ELSE total_steps

\* A finalizar without its break.
EndsLoopNever(typ) == FALSE

\* Whether the action ends the loop once processed (done = True; break).
EndsLoop(typ) == typ = JStr("finalizar")

\* A budget test that lets one request too many through.
BudgetSpentLate(requests_made, limit) == requests_made > limit

\* requests_made >= max_requests: no request is left.
BudgetSpent(requests_made, limit) == requests_made >= limit

\* The path a leia_arquivo action names: parameters.path, else path.
PathParam(action, params) ==
    IF Truthy(params) /\ Truthy(Get(params, "path")) THEN Get(params, "path")
    ELSE IF Truthy(Get(action, "path")) THEN Get(action, "path")
    ELSE JNull

\* The file as looked for: the path itself when absolute, else joined to the
\* allowed root when that was declared absolute, else to config_dir.
RequestedFile(cfg, path) ==
    IF isabs(path) THEN path
    ELSE join(IF allowed_root_from_absolute(cfg) THEN allowed_root(cfg) ELSE config_dir,
              path)

\* The attachment of a file: None when it does not exist or its resolved
\* path does not start with the allowed root's, else its base64.
Attachment(found, resolved, allowed_resolved) ==
    IF ~found THEN JNull
    ELSE IF ~startswith(resolved, allowed_resolved) THEN JNull
    ELSE JStr(read_file_base64(resolved))

AttachmentOf(cfg, fpath) ==
    Attachment(exists(fpath), abspath(fpath), abspath(allowed_root(cfg)))

\* A read that files the attachment under the file looked for, and under the
\* path as requested too.
ReadPathBothKeys(cfg, path_param) ==
    IF ~Truthy(path_param) \/ ~IsStr(path_param) THEN Raised
    ELSE Returned(JObj((path_param.v :> AttachmentOf(cfg, RequestedFile(cfg, path_param.v)))
                       @@ (RequestedFile(cfg, path_param.v)
                             :> AttachmentOf(cfg, RequestedFile(cfg, path_param.v)))))

ReadPath(cfg, path_param) ==
    IF ~Truthy(path_param) \/ ~IsStr(path_param) THEN Raised
    ELSE Returned(JObj(path_param.v :> AttachmentOf(cfg, RequestedFile(cfg, path_param.v))))

ReadWith(cfg, action, params) ==
    IF Truthy(params) /\ ~IsDict(params) THEN Raised
    ELSE ReadPath(cfg, PathParam(action, params))

\* leia_arquivo: raised when the path is missing or unusable, else the
\* attachments, one entry under the path as requested.
leia_arquivo(cfg, action) == ReadWith(cfg, action, Get(action, "parameters"))

\* A finalizar that prefers html to content.
HtmlContentHtmlFirst(params) ==
    IF Truthy(Get(params, "html")) THEN Get(params, "html")
    ELSE IF Truthy(Get(params, "content")) THEN Get(params, "content")
    ELSE IF Truthy(Get(params, "html_content")) THEN Get(params, "html_content")
    ELSE JNull

\* The content of a finalizar: content, else html, else html_content.
HtmlContent(params) ==
    IF Truthy(Get(params, "content")) THEN Get(params, "content")
    ELSE IF Truthy(Get(params, "html")) THEN Get(params, "html")
    ELSE IF Truthy(Get(params, "html_content")) THEN Get(params, "html_content")
    ELSE JNull

\* Where a finalizar saves: parameters.path, else relatório, both under
\* config_dir when relative; "" when neither is given.
OutPath(cfg, given) ==
    IF Truthy(given) THEN (IF IsStr(given) THEN join(config_dir, given.v) ELSE "")
    ELSE IF cfg.relatorio # "" THEN join(config_dir, cfg.relatorio)
    ELSE ""

\* The write of a finalizar: nothing without content or without a path; a
\* path or a content that is no text raises (the file then opened stays
\* empty).
SaveHtml(files, html_content, given, out_path) ==
    IF ~Truthy(html_content) THEN [raised |-> FALSE, files |-> files]
    ELSE IF Truthy(given) /\ ~IsStr(given) THEN [raised |-> TRUE, files |-> files]
    ELSE IF out_path = "" THEN [raised |-> FALSE, files |-> files]
    ELSE IF ~IsStr(html_content)
         THEN [raised |-> TRUE, files |-> (out_path :> "") @@ files]
    ELSE [raised |-> FALSE, files |-> (out_path :> html_content.v) @@ files]

FinalizeWith(cfg, params, files) ==
    IF ~IsDict(params) THEN [raised |-> TRUE, files |-> files]
    ELSE SaveHtml(files, HtmlContent(params), Get(params, "path"),
                  OutPath(cfg, Get(params, "path")))

\* finalizar: raised when parameters is no dict or the content no text, else
\* the files as written: path |-> content.
finalizar(cfg, action, files) ==
    FinalizeWith(cfg,
                 IF Truthy(Get(action, "parameters"))
                 THEN Get(action, "parameters") ELSE EmptyObj,
                 files)

-----------------------------------------------------------------------------
(* The state of a run *)

VARIABLES
    pc,             \* where main is: "start", "first_call", "loop" (the top of
                    \* the while loop), "update", "ask", "ceiling", "exit"
    config,         \* the configuration file
    endpoint,       \* what a call to the model endpoint may yield: replies,
                    \* the transport error
    response,       \* main's response
    memory,         \* main's memory
    action,         \* the loop's action
    attachments,    \* the loop's attachments
    done,           \* the loop's done
    requests_made,  \* main's requests_made (0 until the first reply is in)
    total_steps,    \* main's total_steps
    outcome,        \* "running", or how the process ended: "ok" (exit code
                    \* 0), "config_error", "first_call_failed", "no_response",
                    \* "crashed" (exit code 1)
    calls,          \* gateway calls issued so far (invoke_model for the first,
                    \* invoke_model_with_retries afterwards)
    sent,           \* the payload of the last gateway call
    normalized,     \* what ensure_structured_response last returned
    files,          \* the files written: path |-> content
    first_http,     \* what the endpoint did at the first request: "none"
                    \* before it, then "failed" (an exception) or "answered"
    probe           \* a function applied on its own: its name, its arguments
                    \* and its result; [op |-> "none"] within a run of main

vars == <<pc, config, endpoint, response, memory, action, attachments, done,
          requests_made, total_steps, outcome, calls, sent, normalized, files,
          first_http, probe>>

exit_code == IF outcome = "ok" THEN 0 ELSE 1

NoFiles == [path \in {} |-> ""]

InitWith(configs, endpoints) ==
    /\ pc = "start"
    /\ config \in configs
    /\ endpoint \in endpoints
    /\ response = JNull
    /\ memory = JNull
    /\ action = JNull
    /\ attachments = EmptyObj
    /\ done = FALSE
    /\ requests_made = 0
    /\ total_steps = 0
    /\ outcome = "running"
    /\ calls = 0
    /\ sent = JNull
    /\ normalized = [set |-> FALSE, val |-> JNull]
    /\ files = NoFiles
    /\ first_http = "none"
    /\ probe = [op |-> "none"]

\* What one HTTP call yields: the transport error, or the reply's value.
TransportError == <<"error", "transport">>
HttpOf(reply) == IF reply = TransportError THEN Raised ELSE Returned(RawTable[reply])

\* The HTTP calls of one gateway call: `failed` transport errors, then the
\* same outcome at every attempt.
Attempts(failed, reply) ==
    [i \in 1..MaxRetries |-> IF i <= failed THEN Raised ELSE HttpOf(reply)]

\* Lines 497-583: the configuration is checked before anything is sent.
Configure ==
    /\ pc = "start"
    /\ pc' = IF ConfigError(config) = "" THEN "first_call" ELSE "exit"
    /\ outcome' = IF ConfigError(config) = "" THEN outcome ELSE "config_error"
    /\ UNCHANGED <<config, endpoint, response, memory, action, attachments, done,
                   requests_made, total_steps, calls, sent, normalized, files,
                   first_http, probe>>

\* Whether a call's reply, normalised to n, is one the loop goes on with.
Went(res, n) == ~res.raised /\ ~n.raised /\ IsDict(n.val)

\* ensure_structured_response of what a call returned.
Normalized(res) ==
    IF res.raised THEN Raised ELSE ensure_structured_response(res.val)

\* Lines 626-652: the first reply normalised and the counters set. A reply
\* that is None, or that normalises to no dict, ends the run.
FirstNormalized(resp, n) ==
    /\ calls' = calls + 1
    /\ sent' = InitialPayload
    /\ normalized' = IF resp.raised \/ n.raised THEN normalized
                     ELSE [set |-> TRUE, val |-> n.val]
    /\ response' = IF resp.raised \/ n.raised THEN response ELSE n.val
    /\ memory' = IF Went(resp, n) THEN GetOr(n.val, "memory", EmptyObj) ELSE memory
    /\ requests_made' = IF Went(resp, n) THEN 1 ELSE requests_made
    /\ pc' = IF Went(resp, n) THEN "loop" ELSE "exit"
    /\ outcome' = CASE resp.raised -> "first_call_failed"
                    [] ~resp.raised /\ n.raised -> "no_response"
                    [] ~resp.raised /\ ~n.raised /\ ~IsDict(n.val) -> "crashed"
                    [] OTHER -> outcome

FirstReplied(resp) == FirstNormalized(resp, Normalized(resp))

\* Lines 585-652: the first call, made once, and its reply normalised.
FirstCall ==
    /\ pc = "first_call"
    /\ \E reply \in endpoint :
         /\ FirstReplied(FirstResp(config, HttpOf(reply)))
         /\ first_http' = IF reply = TransportError THEN "failed" ELSE "answered"
    /\ UNCHANGED <<config, endpoint, action, attachments, done, total_steps, files,
                   probe>>

\* Lines 658-725: `act` counted and carried out, given what reading and
\* finalising yield.
Dispatch(act, typ, read, final, crashed) ==
    /\ action' = act
    /\ total_steps' = StepsAfter(total_steps, act)
    /\ attachments' = IF ~Truthy(act) THEN attachments
                      ELSE IF typ = JStr("leia_arquivo") /\ ~read.raised THEN read.val
                      ELSE EmptyObj
    /\ files' = final.files
    /\ done' = IF Truthy(act) /\ ~crashed /\ EndsLoop(typ) THEN TRUE ELSE done
    /\ pc' = CASE ~Truthy(act) -> "ask"
               [] Truthy(act) /\ (crashed \/ EndsLoop(typ)) -> "exit"
               [] OTHER -> "update"
    /\ outcome' = CASE Truthy(act) /\ crashed -> "crashed"
                    [] Truthy(act) /\ ~crashed /\ EndsLoop(typ) -> "ok"
                    [] OTHER -> outcome

\* A loop for which an action of an unrecognized type raises as well.
CrashesOnUnknown(act, typ, read, final) ==
    \/ Truthy(act) /\ ~IsDict(act)
    \/ typ = JStr("leia_arquivo") /\ read.raised
    \/ typ = JStr("finalizar") /\ final.raised
    \/ Truthy(act) /\ typ \notin {JStr("leia_arquivo"), JStr("finalizar")}

\* An action that is no dict, a read without a usable path, a finalizar
\* without usable parameters: each raises, and nothing catches it.
Crashes(act, typ, read, final) ==
    \/ Truthy(act) /\ ~IsDict(act)
    \/ typ = JStr("leia_arquivo") /\ read.raised
    \/ typ = JStr("finalizar") /\ final.raised

Carry(act, typ, read, final) ==
    Dispatch(act, typ, read, final, Crashes(act, typ, read, final))

Execute(act, typ) ==
    Carry(act, typ,
          IF typ = JStr("leia_arquivo") THEN leia_arquivo(config, act) ELSE Raised,
          IF typ = JStr("finalizar") THEN finalizar(config, act, files)
          ELSE [raised |-> FALSE, files |-> files])

ExecuteOn(act) == Execute(act, IF IsDict(act) THEN Get(act, "type") ELSE JNull)

\* Lines 654-725: the top of the loop: the action of the response is counted
\* and carried out.
ExecuteAction ==
    /\ pc = "loop"
    /\ ExecuteOn(CurrentAction(response))
    /\ UNCHANGED <<config, endpoint, response, memory, requests_made, calls, sent,
                   normalized, first_http, probe>>

\* An update whose failure leaves the response, and so its action, in place.
UpdateNormalizedKeepsResponse(res, n) ==
    /\ calls' = calls + 1
    /\ sent' = UpdatePayload(action, attachments, memory, total_steps, response)
    /\ requests_made' = IF res.raised THEN requests_made ELSE requests_made + 1
    /\ normalized' = IF res.raised \/ n.raised THEN normalized
                     ELSE [set |-> TRUE, val |-> n.val]
    /\ response' = IF Went(res, n) THEN n.val ELSE response
    /\ memory' = IF Went(res, n) THEN GetOr(n.val, "memory", EmptyObj) ELSE memory
    /\ pc' = "ceiling"
    /\ UNCHANGED <<done, outcome>>

\* Lines 754-764: the reply to an update taken in; a failed call, or a reply
\* that normalises to no dict, leaves the error response in its place.
UpdateNormalized(res, n) ==
    /\ calls' = calls + 1
    /\ sent' = UpdatePayload(action, attachments, memory, total_steps, response)
    /\ requests_made' = IF res.raised THEN requests_made ELSE requests_made + 1
    /\ normalized' = IF res.raised \/ n.raised THEN normalized
                     ELSE [set |-> TRUE, val |-> n.val]
    /\ response' = IF Went(res, n) THEN n.val ELSE ErrorResponse(memory)
    /\ memory' = IF Went(res, n) THEN GetOr(n.val, "memory", EmptyObj) ELSE memory
    /\ pc' = "ceiling"
    /\ UNCHANGED <<done, outcome>>

UpdateReplied(res) == UpdateNormalized(res, Normalized(res))

\* Lines 726-764: the update after an action, when a request is left.
SendUpdate ==
    /\ pc = "update"
    /\ IF BudgetSpent(requests_made, max_requests(config))
       THEN /\ done' = TRUE
            /\ pc' = "exit"
            /\ outcome' = "ok"
            /\ UNCHANGED <<response, memory, requests_made, calls, sent, normalized>>
       ELSE \E reply \in endpoint, failed \in 0..MaxFailedAttempts :
              UpdateReplied(invoke_model_with_retries(config, Attempts(failed, reply),
                                is_generate_content(config), MaxRetries))
    /\ UNCHANGED <<config, endpoint, action, attachments, total_steps, files,
                   first_http, probe>>

\* A loop that never looks at the status.
SaysDoneNever(reply) == FALSE

\* response.get('status') == 'done', asked of the reply to a request for next
\* steps.
SaysDone(reply) == Get(reply, "status") = JStr("done")

\* Lines 791-803: the reply to a request for next steps taken in; a failed
\* call, or a reply that normalises to no dict, ends the loop.
AskNormalized(res, n) ==
    /\ calls' = calls + 1
    /\ sent' = AskPayload(memory, requests_made, config, response)
    /\ requests_made' = IF res.raised THEN requests_made ELSE requests_made + 1
    /\ normalized' = IF res.raised \/ n.raised THEN normalized
                     ELSE [set |-> TRUE, val |-> n.val]
    /\ response' = IF res.raised \/ n.raised THEN response ELSE n.val
    /\ memory' = IF Went(res, n) THEN GetOr(n.val, "memory", EmptyObj) ELSE memory
    /\ done' = IF Went(res, n) /\ SaysDone(n.val) THEN TRUE ELSE done
    /\ pc' = IF Went(res, n) THEN "ceiling" ELSE "exit"
    /\ outcome' = IF Went(res, n) THEN outcome ELSE "ok"

AskReplied(res) == AskNormalized(res, Normalized(res))

\* A loop that goes round again, instead of ending, when no request is left
\* to ask for next steps.
AskNextStepsGoesRound ==
    /\ pc = "ask"
    /\ IF BudgetSpent(requests_made, max_requests(config))
       THEN /\ pc' = "ceiling"
            /\ UNCHANGED <<response, memory, done, requests_made, calls, sent,
                           normalized, outcome>>
       ELSE \E reply \in endpoint, failed \in 0..MaxFailedAttempts :
              AskReplied(invoke_model_with_retries(config, Attempts(failed, reply),
                             is_generate_content(config), MaxRetries))
    /\ UNCHANGED <<config, endpoint, action, attachments, total_steps, files,
                   first_http, probe>>

\* Lines 769-803: the request for next steps, when the response had no action
\* and a request is left.
AskNextSteps ==
    /\ pc = "ask"
    /\ IF BudgetSpent(requests_made, max_requests(config))
       THEN /\ pc' = "exit"
            /\ outcome' = "ok"
            /\ UNCHANGED <<response, memory, done, requests_made, calls, sent, normalized>>
       ELSE \E reply \in endpoint, failed \in 0..MaxFailedAttempts :
              AskReplied(invoke_model_with_retries(config, Attempts(failed, reply),
                             is_generate_content(config), MaxRetries))
    /\ UNCHANGED <<config, endpoint, action, attachments, total_steps, files,
                   first_http, probe>>

\* Lines 805-807 and the loop's condition: the end of an iteration.
CheckStepCeiling ==
    /\ pc = "ceiling"
    /\ pc' = IF total_steps > StepCeiling \/ done THEN "exit" ELSE "loop"
    /\ outcome' = IF total_steps > StepCeiling \/ done THEN "ok" ELSE outcome
    /\ UNCHANGED <<config, endpoint, response, memory, action, attachments, done,
                   requests_made, total_steps, calls, sent, normalized, files,
                   first_http, probe>>

Next ==
    \/ Configure
    \/ FirstCall
    \/ ExecuteAction
    \/ SendUpdate
    \/ AskNextSteps
    \/ CheckStepCeiling

\* Every configuration up to MaxLimite requests, against an endpoint that may
\* give any reply, or fail, at any call.
Init ==
    InitWith(UsableConfigs(0..MaxLimite) \cup BrokenConfigs,
             {AllReplies \cup {TransportError}})

Spec == Init /\ [][Next]_vars

\* Runs followed to their end: both kinds of endpoint, every budget up to
\* MaxLiveLimite, against an endpoint that may give any reply, or fail, at any
\* call.
InitLive ==
    InitWith({Config(e[1], e[2], TRUE, l, "out.html") :
                 e \in {<<GenEndpoint, "Google Gemini">>, <<ChatEndpoint, "Azure OpenAI">>},
                 l \in 0..MaxLiveLimite},
             {AllReplies \cup {TransportError}})

\* main is one sequential program and every call it makes returns: whenever
\* it has a step to take, it takes it.
SpecLive == InitLive /\ [][Next]_vars /\ WF_vars(Next)

\* Long runs: a budget that outlasts the step ceiling against an endpoint that asks
\* for the same file at every call, and a budget of two requests against an
\* endpoint that never names an action.
InitCeiling ==
    \/ InitWith({Config(ChatEndpoint, "Azure OpenAI", TRUE, StepCeiling + 2, "")},
                {{<<"plain", "read_f">>}})
    \/ InitWith({Config(ChatEndpoint, "Azure OpenAI", TRUE, 2, "")},
                {{<<"plain", "no_action">>}})

SpecCeiling == InitCeiling /\ [][Next]_vars

-----------------------------------------------------------------------------
(* Functions applied on their own *)

InitProbe ==
    /\ pc = "probe"
    /\ config = BaseConfig
    /\ endpoint = {}
    /\ response = JNull
    /\ memory = JNull
    /\ action = JNull
    /\ attachments = EmptyObj
    /\ done = FALSE
    /\ requests_made = 0
    /\ total_steps = 0
    /\ outcome = "running"
    /\ calls = 0
    /\ sent = JNull
    /\ normalized = [set |-> FALSE, val |-> JNull]
    /\ files = NoFiles
    /\ first_http = "none"
    /\ probe = [op |-> "none"]

\* The probe is taken once; nothing of main moves.
Probed(record) ==
    /\ probe.op = "none"
    /\ probe' = record
    /\ UNCHANGED <<pc, config, endpoint, response, memory, action, attachments, done,
                   requests_made, total_steps, outcome, calls, sent, normalized,
                   files, first_http>>

\* What one attempt's HTTP call may yield: an exception, the body null, a
\* body without candidates, a reply without candidate text, a candidate whose
\* text is empty, a candidate text.
AttemptKinds == {"error", "null", "empty", "reply", "blank", "text"}

CandidateReply(text) ==
    JObj([candidates |-> JArr(<<JObj([content |->
        JObj([parts |-> JArr(<<JObj([text |-> JStr(text)])>>)])])>>)])

HttpOfKind(kind) ==
    CASE kind = "error" -> Raised
      [] kind = "null"  -> Returned(JNull)
      [] kind = "empty" -> Returned(JObj([candidates |-> JArr(<<>>)]))
      [] kind = "reply" -> Returned(JObj([status |-> JStr("ok")]))
      [] kind = "blank" -> Returned(CandidateReply(""))
      [] kind = "text"  -> Returned(CandidateReply("hello"))

RetriesProbed(is_gen, max_retries, kinds, result) ==
    Probed([op |-> "invoke_model_with_retries", is_generate_content |-> is_gen,
            max_retries |-> max_retries, kinds |-> kinds, result |-> result])

\* invoke_model_with_retries(cfg, payload, is_generate_content, max_retries)
\* against every course of at most MaxAttempts attempts.
ProbeRetries ==
    /\ pc = "probe"
    /\ \E is_gen \in BOOLEAN, max_retries \in 1..MaxAttempts :
         \E kinds \in [1..max_retries -> AttemptKinds] :
           RetriesProbed(is_gen, max_retries, kinds,
               invoke_model_with_retries(BaseConfig,
                   [i \in 1..max_retries |-> HttpOfKind(kinds[i])],
                   is_gen, max_retries))

\* The parameters of a finalizar, from what is given of content, html,
\* html_content and path ("none": the key is absent).
ParamsGiven(given) ==
    JObj([key \in {k \in DOMAIN given : given[k] # "none"} |-> JStr(given[key])])

FinalizarAction(given) ==
    JObj([type |-> JStr("finalizar"), parameters |-> ParamsGiven(given)])

\* The files before a finalizar: none, or an older report.
FilesBefore == {NoFiles, "/c/out.html" :> "<old>"}

FinalizarProbed(given, relatorio, before, result) ==
    Probed([op |-> "finalizar", given |-> given, relatorio |-> relatorio,
            before |-> before, result |-> result])

\* The finalizar branch of main on every choice of content, html,
\* html_content and path, with and without a configured relatório.
ProbeFinalizar ==
    /\ pc = "probe"
    /\ \E given \in [content : {"none", "", "<a>"}, html : {"none", "<b>"},
                      html_content : {"none", "<c>"},
                      path : {"none", "o.html", "/abs/o.html"}],
          relatorio \in {"", "out.html"}, before \in FilesBefore :
         FinalizarProbed(given, relatorio, before,
             finalizar(Config(ChatEndpoint, "Azure OpenAI", TRUE, 2, relatorio),
                       FinalizarAction(given), before))

\* Objects a model embeds in prose, as written.
EmbeddedNames == {"plain", "nested", "empty", "mixed"}

EmbeddedText(name) ==
    CASE name = "plain"  -> "{\"status\":\"ok\",\"action\":null}"
      [] name = "nested" -> "{\"memory\":{\"k\":\"v\"},\"action\":{\"type\":\"x\"}}"
      [] name = "empty"  -> "{}"
      [] name = "mixed"  -> "{ \"n\":12, \"ok\":true, \"l\":[1,\"}{\"] }"

\* Prose before and after the object; "} " and " {" carry a brace on the
\* far side of the object only.
ProseBefore == {"", "Sure: ", "1 ", "} "}
ProseAfter == {"", " Bye", " 2", " {"}

\* The reply in the shape the normalizer is handed: the text itself, or a
\* chat completion whose choices[0].message.content is the text.
Shaped(shape, text) ==
    IF shape = "text" THEN JStr(text)
    ELSE JObj([choices |-> JArr(<<JObj([message |-> JObj([content |-> JStr(text)])])>>)])

NormalizeProbed(shape, before, name, after, result) ==
    Probed([op |-> "ensure_structured_response", shape |-> shape, before |-> before,
            embedded |-> name, after |-> after, result |-> result])

NormalizeProse(shape, before, name, after, text) ==
    /\ ~json_loads(text).ok
    /\ NormalizeProbed(shape, before, name, after,
                       ensure_structured_response(Shaped(shape, text)))

\* ensure_structured_response on a text that is not JSON and holds one
\* object within prose.
ProbeNormalize ==
    /\ pc = "probe"
    /\ \E shape \in {"text", "chat"}, before \in ProseBefore,
          name \in EmbeddedNames, after \in ProseAfter :
         NormalizeProse(shape, before, name, after,
                        before \o EmbeddedText(name) \o after)

\* Structured responses as the model is told to write them: status, plan,
\* action and memory, or a memory alone.
ResponseActions ==
    {JNull,
     JObj([type |-> JStr("leia_arquivo"), parameters |-> JObj([path |-> JStr("a/b.txt")])]),
     JObj([type |-> JStr("finalizar"),
           parameters |-> JObj([content |-> JStr("<p>x, y: z</p>")])])}

ResponseMemories ==
    {EmptyObj,
     JObj([n |-> JStr("1")]),
     JObj([seen |-> JArr(<<JStr("a"), JNum("2"), JBool("true"), JBool("false"), JNull>>),
           deep |-> JObj([k |-> EmptyObj, l |-> JArr(<<>>)])])}

StructuredResponses ==
    {JObj([status |-> JStr(status), plan |-> plan, action |-> act, memory |-> mem]) :
        status \in {"ok", "error"},
        plan \in {JArr(<<>>), JArr(<<JStr("read"), JStr("write")>>)},
        act \in ResponseActions, mem \in ResponseMemories}
    \cup {JObj([memory |-> mem]) : mem \in ResponseMemories}

RoundTripProbed(shape, structured, text, result) ==
    Probed([op |-> "round_trip", shape |-> shape, structured |-> structured,
            text |-> text, result |-> result])

RoundTripOf(shape, structured, text) ==
    RoundTripProbed(shape, structured, text,
                    ensure_structured_response(Shaped(shape, text)))

\* ensure_structured_response on json.dumps of a structured response, as
\* the reply's text and as the content of a chat completion.
ProbeRoundTrip ==
    /\ pc = "probe"
    /\ \E shape \in {"text", "chat"}, structured \in StructuredResponses :
         RoundTripOf(shape, structured, json_dumps(structured))

\* What the endpoint may yield at the first request and at the attempts of
\* a later call.
FirstKinds == {"error", "null", "reply", "blank", "text"}

FirstCallProbed(cfg, kinds, first, later) ==
    Probed([op |-> "first_call", is_generate_content |-> is_generate_content(cfg),
            max_retries |-> MaxRetries, kinds |-> kinds,
            first |-> first,
            first_normalized |-> Normalized(first),
            later |-> later])

\* The same course of the endpoint met by the first call (lines 585-624) and
\* by a call of the loop (lines 754, 791).
ProbeFirstCall ==
    /\ pc = "probe"
    /\ \E cfg \in {BaseConfig, Config(GenEndpoint, "Google Gemini", TRUE, 2, "out.html")},
          kinds \in [1..MaxRetries -> FirstKinds] :
         FirstCallProbed(cfg, kinds,
             FirstResp(cfg, HttpOfKind(kinds[1])),
             invoke_model_with_retries(cfg, [i \in 1..MaxRetries |-> HttpOfKind(kinds[i])],
                                       is_generate_content(cfg), MaxRetries))

NextProbe ==
    \/ ProbeRetries
    \/ ProbeFinalizar
    \/ ProbeNormalize
    \/ ProbeRoundTrip
    \/ ProbeFirstCall

SpecProbe == InitProbe /\ [][NextProbe]_vars

-----------------------------------------------------------------------------
(* What the claims speak of *)

\* Where main is once the first reply is in and the run has not ended.
InLoop == pc \in {"loop", "update", "ask", "ceiling"}

\* The type of an action, None when the action is no dict.
TypeOf(act) == IF IsDict(act) THEN Get(act, "type") ELSE JNull

\* The loop is about to look at a response whose action is of type typ.
Pending(typ) ==
    pc = "loop" /\ Truthy(CurrentAction(response)) /\ TypeOf(CurrentAction(response)) = typ

\* The loop is about to look at a response whose action is of no known type.
UnknownPending ==
    /\ pc = "loop"
    /\ IsDict(CurrentAction(response)) /\ Truthy(CurrentAction(response))
    /\ TypeOf(CurrentAction(response)) \notin {JStr("leia_arquivo"), JStr("finalizar")}

\* The response names no action but carries a list of them under 'actions'.
OnlyActionsList ==
    /\ IsDict(response)
    /\ ~Truthy(Get(response, "action"))
    /\ IsList(Get(response, "actions")) /\ Truthy(Get(response, "actions"))

\* This step made a gateway call that failed after its retries: the call is
\* counted in calls, not in requests_made.
CallFailedAt(where) ==
    pc = where /\ calls' = calls + 1 /\ requests_made' = requests_made

\* Whether the location `resolved` is the directory `root` or lies under it.
Inside(resolved, root) ==
    resolved = root \/ startswith(resolved, root \o "/")

\* Whether the path a leia_arquivo named resolves outside the allowed root.
OutsideRoot(path) ==
    ~Inside(abspath(RequestedFile(config, path)), abspath(allowed_root(config)))

-----------------------------------------------------------------------------
(* The claims *)

\* C1: in every state of the step loop requests_made <= max_requests, for any
\* configured limite_passos, the first call counted as one request. (The
\* first call is made before the limit is read, so a limit of 0 is exceeded.)
C1_RequestsWithinBudget ==
    InLoop => requests_made <= max_requests(config)

\* C2: when the response carries a finalizar action, the loop ends right
\* after processing it, without a gateway call; and once main has ended no
\* action is executed and no call is issued, whatever budget remains.
C2_FinalizarEndsLoop ==
    [][ /\ pc # "exit"
        /\ Pending(JStr("finalizar")) => (pc' = "exit" /\ calls' = calls)
      ]_vars

\* C2 witness: main ended on a finalizar with requests left, nothing saved.
C2_Witness ==
    /\ pc = "exit" /\ done /\ outcome = "ok"
    /\ TypeOf(action) = JStr("finalizar")
    /\ requests_made < max_requests(config)
    /\ files = NoFiles

\* C3: the attachment recorded for a leia_arquivo whose path resolves outside
\* the allowed root (not the root, not a descendant) is null.
C3_OutsideRootIsNull ==
    \A path \in DOMAIN attachments.v :
        OutsideRoot(path) => attachments.v[path] = JNull

\* C4: total_steps is left as it is by an action of an unrecognized type,
\* which is skipped.
C4_UnknownNotCounted ==
    [][ UnknownPending => total_steps' = total_steps ]_vars

\* C5: total_steps <= 1000 in every reachable state, whatever the budget.
C5_StepCeiling ==
    total_steps <= StepCeiling

\* C6 as stated: when a reply carries an 'actions' list, its actions are
\* executed: the loop counts a step for the first of them.
C6_ActionsListExecuted ==
    [][ (pc = "loop" /\ OnlyActionsList) => total_steps' = total_steps + 1 ]_vars

\* C6 as amended: only the single 'action' is read. A reply that names no
\* action but carries an 'actions' list is a reply without action: no step is
\* counted, nothing is attached or written, and the loop goes on to ask for
\* next steps, which it does only while a request is left.
C6_ActionsListIgnored ==
    [][ /\ (pc = "loop" /\ OnlyActionsList) =>
             /\ pc' = "ask"
             /\ total_steps' = total_steps
             /\ attachments' = attachments
             /\ files' = files
        /\ (pc = "ask" /\ requests_made >= max_requests(config)) =>
             (calls' = calls /\ pc' = "exit")
      ]_vars

\* C6 witness: the first reply carried four actions under 'actions', and the
\* loop stands before the request for next steps with no step counted.
C6_Witness ==
    /\ pc = "ask" /\ OnlyActionsList
    /\ Len(Get(response, "actions").v) = 4
    /\ total_steps = 0 /\ calls = 1

\* C7: what ensure_structured_response returns for a reply carries 'memory'.
C7_MemoryPresent ==
    (normalized.set /\ IsDict(normalized.val)) => HasKey(normalized.val, "memory")

\* C8: ensure_structured_response yields a mapping for every reply that is
\* not absent, so main never crashes on taking in the model's first turn.
C8_NormalizedIsMapping ==
    /\ normalized.set => IsDict(normalized.val)
    /\ ~(outcome = "crashed" /\ requests_made = 0)

C10_ExitZeroAfterFirstCall ==
    (pc = "exit" /\ requests_made >= 1) => exit_code = 0

\* A required field of the configuration is missing: solicitação, conexão,
\* conexão.autenticação or conexão.plataforma.
MissingField ==
    \/ ~config.solicitacao
    \/ ~config.conexao
    \/ ~config.autenticacao
    \/ config.plataforma = ""

\* C11: if the first model call fails with a transport error, the process has
\* ended with a non-zero exit status, with no action executed, no file
\* written and no other model call issued.
C11_FirstCallFailureIsFatal ==
    first_http = "failed" =>
        /\ pc = "exit" /\ exit_code # 0
        /\ calls = 1 /\ requests_made = 0
        /\ total_steps = 0 /\ action = JNull /\ attachments = EmptyObj
        /\ files = NoFiles

\* C11 witness: a configured endpoint failed at the first request.
C11_Witness ==
    first_http = "failed" /\ config.endpoint # "" /\ outcome = "first_call_failed"

\* C12: from a configuration with a required field missing no model call is
\* ever issued, and the run ends with a non-zero exit status.
C12_NoCallWithoutConfiguration ==
    MissingField =>
        /\ calls = 0 /\ first_http = "none" /\ sent = JNull
        /\ pc \in {"start", "exit"}
        /\ pc = "exit" => exit_code # 0

\* C12 witness: a run that ended on a configuration without plataforma.
C12_Witness ==
    config.plataforma = "" /\ pc = "exit" /\ outcome = "config_error"

\* The response has status 'done'.
StatusDone(reply) == IsDict(reply) /\ Get(reply, "status") = JStr("done")

\* This step sent a request for next steps and took its reply in.
AskAnswered ==
    pc = "ask" /\ calls' = calls + 1 /\ pc' = "ceiling"

\* C14 as stated: once the response has status 'done' no further model call
\* is issued.
C14_DoneStopsCalls ==
    [][ (InLoop /\ StatusDone(response)) => calls' = calls ]_vars

\* C14 as amended: the status is read in the reply to a request for next
\* steps only. Such a reply with status 'done' ends the loop without any
\* further call or step. A status 'done' in the first reply or in the reply
\* to an update is not looked at: when that reply names no action the loop
\* goes on to ask for next steps, and sends the request while one is left.
C14_DoneAfterNextSteps ==
    [][ /\ (AskAnswered /\ StatusDone(response')) => done'
        /\ (pc = "ceiling" /\ done) =>
             (pc' = "exit" /\ calls' = calls /\ total_steps' = total_steps
              /\ outcome' = "ok")
        /\ (pc = "loop" /\ StatusDone(response) /\ ~Truthy(CurrentAction(response))) =>
             (pc' = "ask" /\ ~done')
        /\ (pc = "ask" /\ StatusDone(response) /\ requests_made < max_requests(config)) =>
             calls' = calls + 1
      ]_vars

\* C14 witness: the reply to a request for next steps said 'done' and main
\* ended with requests left.
C14_Witness ==
    /\ pc = "exit" /\ done /\ outcome = "ok"
    /\ StatusDone(response) /\ ~Truthy(action)
    /\ calls >= 2 /\ requests_made < max_requests(config)

\* This step issued a follow-up call: an update or a request for next steps.
FollowUpCall == pc \in {"update", "ask"} /\ calls' = calls + 1

\* C15: every follow-up payload carries as 'memory' the memory of the reply
\* last received and normalized ({} when that reply had none); a turn that
\* failed (the call raised, or its reply was no mapping) leaves the memory as
\* it was.
C15_MemoryThreaded ==
    [][ /\ (normalized'.set /\ IsDict(normalized'.val)) =>
             memory' = (IF HasKey(normalized'.val, "memory")
                        THEN normalized'.val.v["memory"] ELSE EmptyObj)
        /\ FollowUpCall => (IsDict(sent') /\ Get(sent', "memory") = memory)
        /\ (FollowUpCall /\ (requests_made' = requests_made \/ ~IsDict(normalized'.val))) =>
             memory' = memory
      ]_vars

\* C15 witness: after a first reply with a memory and a failed update, the
\* request for next steps carried that memory and was answered.
C15_Witness ==
    /\ pc = "ceiling" /\ calls = 3 /\ requests_made = 2
    /\ HasKey(sent, "max_steps")
    /\ Get(sent, "memory") = JObj([n |-> JStr("1")])

\* C16: the payload sent when the response carries no action and a request
\* is left has 'request' = "next_steps", 'memory' = the last memory and
\* 'max_steps' = max_requests - requests_made as it was before the call; with
\* no request left nothing is sent and the loop ends.
C16_NextStepsPayload ==
    [][ /\ (pc = "ask" /\ requests_made < max_requests(config)) =>
             /\ calls' = calls + 1
             /\ IsDict(sent')
             /\ Get(sent', "request") = JStr("next_steps")
             /\ Get(sent', "memory") = memory
             /\ Get(sent', "max_steps") =
                    JNum(IntToStr(max_requests(config) - requests_made))
        /\ (pc = "ask" /\ requests_made >= max_requests(config)) =>
             (calls' = calls /\ sent' = sent /\ pc' = "exit")
      ]_vars

\* C17: a non-terminal action met with no request left is still executed
\* (the step counted, the file looked for), but no update is sent: main ends,
\* done, with the response the action came in. With max_requests = 1 the run
\* makes one model call in all.
C17_LastActionUnreported ==
    [][ /\ (Pending(JStr("leia_arquivo")) /\ requests_made >= max_requests(config)) =>
             /\ total_steps' = total_steps + 1
             /\ pc' = "update" => DOMAIN attachments'.v # {}
        /\ (UnknownPending /\ requests_made >= max_requests(config)) =>
             (total_steps' = total_steps + 1 /\ pc' = "update")
        /\ (pc = "update" /\ requests_made >= max_requests(config)) =>
             /\ calls' = calls /\ sent' = sent /\ response' = response
             /\ pc' = "exit" /\ done' /\ outcome' = "ok"
        /\ max_requests(config) = 1 => calls' <= 1
      ]_vars

\* C17 witness: with max_requests = 1 the file the first reply asked for was
\* read, and main ended after its only call.
C17_Witness ==
    /\ max_requests(config) = 1
    /\ pc = "exit" /\ done /\ outcome = "ok"
    /\ total_steps = 1 /\ calls = 1
    /\ attachments = JObj("f" :> JStr("aW5zaWRl"))
    /\ sent = InitialPayload

\* C18: requests_made is 1 after the first call and equals, at every point of
\* the loop and after it, the number of gateway calls issued, failed ones
\* included.
C18_RequestsCountCalls ==
    requests_made >= 1 => requests_made = calls

\* The kinds of attempt whose outcome is usable: a candidate text in
\* generate-content mode, any body but null otherwise.
UsableKinds(is_gen) ==
    IF is_gen THEN {"text"} ELSE {"empty", "reply", "blank", "text"}

\* The attempts of the probed course that yield a usable reply.
UsableAttempts ==
    {i \in 1..probe.max_retries : probe.kinds[i] \in UsableKinds(probe.is_generate_content)}

\* C13: invoke_model_with_retries makes at most max_retries attempts, returns
\* at the first attempt that yields a usable reply, sleeps 2*k seconds after
\* failed attempt k when another attempt follows, and raises when every
\* attempt failed; what it returns is never None.
C13_RetriesWithBackoff ==
    probe.op = "invoke_model_with_retries" =>
        /\ probe.result.attempts \in 1..probe.max_retries
        /\ probe.result.slept = [k \in 1..(probe.result.attempts - 1) |-> 2 * k]
        /\ UsableAttempts # {} =>
             /\ ~probe.result.raised
             /\ probe.result.val # JNull
             /\ \A i \in UsableAttempts : probe.result.attempts <= i
             /\ probe.result.attempts \in UsableAttempts
        /\ UsableAttempts = {} =>
             (probe.result.raised /\ probe.result.attempts = probe.max_retries)

\* C13 witness: two failed attempts, then a candidate text returned at the
\* third and last after sleeping 2 and 4 seconds.
C13_Witness ==
    /\ probe.op = "invoke_model_with_retries"
    /\ probe.is_generate_content /\ probe.max_retries = 3
    /\ probe.kinds = <<"error", "empty", "text">>
    /\ probe.result.val = JStr("hello")
    /\ probe.result.slept = <<2, 4>>

\* The first of the three texts that is given and not empty, "none" when
\* there is none.
ChosenContent(given) ==
    IF given.content \notin {"none", ""} THEN given.content
    ELSE IF given.html \notin {"none", ""} THEN given.html
    ELSE IF given.html_content \notin {"none", ""} THEN given.html_content
    ELSE "none"

\* Where the content is to go: the path given (under the configuration's
\* directory /c when relative), else the configured relatório, else "none".
ChosenPath(given, relatorio) ==
    CASE given.path = "/abs/o.html" -> "/abs/o.html"
      [] given.path = "o.html" -> "/c/o.html"
      [] given.path = "none" /\ relatorio = "out.html" -> "/c/out.html"
      [] OTHER -> "none"

\* C19: a finalizar writes parameters.content, else parameters.html, else
\* parameters.html_content, as it is, to parameters.path, else to the
\* configured relatório; without content, or without either path, it writes
\* nothing.
C19_FinalizarSaves ==
    probe.op = "finalizar" =>
        /\ ~probe.result.raised
        /\ probe.result.files =
             IF ChosenContent(probe.given) # "none"
                /\ ChosenPath(probe.given, probe.relatorio) # "none"
             THEN (ChosenPath(probe.given, probe.relatorio) :> ChosenContent(probe.given))
                  @@ probe.before
             ELSE probe.before

\* C19 witness: content and html both given, no path: the content replaced
\* the older report at the configured relatório.
C19_Witness ==
    /\ probe.op = "finalizar"
    /\ probe.given.content = "<a>" /\ probe.given.html = "<b>"
    /\ probe.given.path = "none" /\ probe.relatorio = "out.html"
    /\ probe.before = ("/c/out.html" :> "<old>")
    /\ probe.result.files = ("/c/out.html" :> "<a>")

\* The fields of the embedded objects, read by hand from their texts.
EmbeddedFields(name) ==
    CASE name = "plain"  -> [status |-> JStr("ok"), action |-> JNull]
      [] name = "nested" -> [memory |-> JObj([k |-> JStr("v")]),
                             action |-> JObj([type |-> JStr("x")])]
      [] name = "empty"  -> EmptyMap
      [] name = "mixed"  -> [n |-> JNum("12"), ok |-> JBool("true"),
                             l |-> JArr(<<JNum("1"), JStr("}{")>>)]

\* C20: from a text that is not JSON and holds one well-formed object within
\* prose, the normalizer returns that object's fields: the object itself for a
\* reply that is a text, and the object with its memory (an empty one when it
\* has none) for the content of a chat completion.
C20_EmbeddedObjectRecovered ==
    probe.op = "ensure_structured_response" =>
        /\ ~probe.result.raised
        /\ IsDict(probe.result.val)
        /\ \A key \in DOMAIN EmbeddedFields(probe.embedded) :
             /\ key \in DOMAIN probe.result.val.v
             /\ probe.result.val.v[key] = EmbeddedFields(probe.embedded)[key]
        /\ DOMAIN probe.result.val.v =
             DOMAIN EmbeddedFields(probe.embedded)
               \cup (IF probe.shape = "chat" THEN {"memory"} ELSE {})
        /\ "memory" \notin DOMAIN EmbeddedFields(probe.embedded) /\ probe.shape = "chat"
             => probe.result.val.v["memory"] = EmptyObj

\* C20 witness: a nested object with prose on both sides, the prose bringing
\* a '}' before it and a '{' after it, was recovered from a text reply.
C20_Witness ==
    /\ probe.op = "ensure_structured_response"
    /\ probe.shape = "text"
    /\ probe.before = "} " /\ probe.after = " {"
    /\ probe.embedded = "nested"
    /\ probe.result.val = JObj(EmbeddedFields("nested"))

\* C21: for a structured response s that has a 'memory', the normalizer
\* applied to the JSON text of s returns s: no field added, dropped or
\* changed.
C21_RoundTrip ==
    probe.op = "round_trip" =>
        /\ HasKey(probe.structured, "memory")
        /\ ~probe.result.raised
        /\ probe.result.val = probe.structured

\* C21 witness: a response with a finalizar action and a memory of nested
\* lists and objects came back from its text as it was.
C21_Witness ==
    /\ probe.op = "round_trip"
    /\ probe.shape = "text"
    /\ TypeOf(Get(probe.structured, "action")) = JStr("finalizar")
    /\ IsList(Get(Get(probe.structured, "memory"), "seen"))
    /\ Len(probe.text) > 100
    /\ probe.result.val = probe.structured

\* The action last carried out is of no known type.
UnknownExecuted ==
    /\ IsDict(action) /\ Truthy(action)
    /\ TypeOf(action) \notin {JStr("leia_arquivo"), JStr("finalizar")}

\* C22: an action whose type is neither leia_arquivo nor finalizar is
\* skipped: nothing is attached, nothing is written, main does not end and
\* the loop is not marked done; its follow-up is the usual update, sent with
\* the action and no attachment while a request is left, and the normal end
\* of main without a call when none is left.
C22_UnknownSkipped ==
    [][ /\ UnknownPending =>
             /\ pc' = "update"
             /\ action' = CurrentAction(response)
             /\ attachments' = EmptyObj
             /\ files' = files
             /\ ~done' /\ outcome' = "running"
             /\ calls' = calls
        /\ (pc = "update" /\ UnknownExecuted /\ requests_made < max_requests(config)) =>
             /\ calls' = calls + 1
             /\ IsDict(sent')
             /\ Get(sent', "update") = JStr("action_executed")
             /\ Get(sent', "executed_action") = action
             /\ Get(sent', "attachments") = EmptyObj
             /\ pc' = "ceiling" /\ ~done' /\ outcome' = "running"
             /\ files' = files
        /\ (pc = "update" /\ UnknownExecuted /\ requests_made >= max_requests(config)) =>
             (pc' = "exit" /\ outcome' = "ok" /\ calls' = calls /\ files' = files)
      ]_vars

\* C22 witness: an action of type 'dance' was skipped, the update for it was
\* sent and answered, and the loop goes on.
C22_Witness ==
    /\ pc = "ceiling" /\ ~done /\ outcome = "running"
    /\ TypeOf(action) = JStr("dance")
    /\ calls = 2 /\ requests_made = 2
    /\ Get(sent, "executed_action") = action
    /\ files = NoFiles

\* C23: from the moment total_steps has passed 1000, no gateway call is
\* issued and no action is counted or executed, whatever budget remains.
C23_NothingPastCeiling ==
    [][ total_steps > StepCeiling =>
            (calls' = calls /\ total_steps' = total_steps /\ attachments' = attachments)
      ]_vars

\* Whether the i-th attempt of the probed course counts as failed: with a
\* generate-content endpoint, an exception or a reply without a non-empty
\* candidate text; otherwise an exception or the reply None.
FailedAttempt(i) ==
    IF probe.is_generate_content
    THEN probe.kinds[i] \in {"error", "null", "empty", "reply", "blank"}
    ELSE probe.kinds[i] \in {"error", "null"}

\* C24: with a generate-content endpoint an attempt fails iff the call raised
\* or the reply has no non-empty text at candidates[0].content.parts[0].text,
\* and what is returned is that text; otherwise an attempt fails iff the call
\* raised or the reply is None, and any other reply is returned as it is.
\* Attempts go on exactly as long as they fail.
C24_FailedAttemptByMode ==
    probe.op = "invoke_model_with_retries" =>
        /\ \A i \in 1..(probe.result.attempts - 1) : FailedAttempt(i)
        /\ probe.result.raised <=> \A i \in 1..probe.max_retries : FailedAttempt(i)
        /\ ~probe.result.raised =>
             /\ ~FailedAttempt(probe.result.attempts)
             /\ probe.result.val =
                  IF probe.is_generate_content THEN JStr("hello")
                  ELSE HttpOfKind(probe.kinds[probe.result.attempts]).val

\* C24 witness: without generate-content, a reply None was retried and a
\* candidate reply whose text is empty was then returned whole.
C24_Witness ==
    /\ probe.op = "invoke_model_with_retries"
    /\ ~probe.is_generate_content
    /\ probe.max_retries = 2 /\ probe.kinds = <<"null", "blank">>
    /\ probe.result.attempts = 2 /\ ~probe.result.raised
    /\ probe.result.val = CandidateReply("")

\* What an attachment may hold: None, or the base64 of one of the files.
AttachmentValues == {JNull} \cup {JStr(read_file_base64(f)) : f \in Files}

\* C25: the loop takes one action from a reply, the one under 'action', and
\* a leia_arquivo attempts one file: the attachments then hold exactly one
\* key, the path as requested, with the file's base64 or None. The update
\* carries that action and those attachments, and an update is only ever sent
\* from behind an executed action.
C25_ActionAtATime ==
    [][ /\ pc = "loop" =>
             /\ action' = CurrentAction(response)
             /\ total_steps' \in {total_steps, total_steps + 1}
             /\ Cardinality(DOMAIN attachments'.v) <= 1
        /\ (Pending(JStr("leia_arquivo")) /\ pc' = "update") =>
             /\ DOMAIN attachments'.v = {Get(Get(action', "parameters"), "path").v}
             /\ \A path \in DOMAIN attachments'.v : attachments'.v[path] \in AttachmentValues
        /\ (pc = "update" /\ calls' = calls + 1) =>
             /\ Truthy(action) /\ action = CurrentAction(response)
             /\ Get(sent', "update") = JStr("action_executed")
             /\ Get(sent', "executed_action") = action
             /\ Get(sent', "attachments") = attachments
             /\ TypeOf(action) = JStr("leia_arquivo") =>
                  Cardinality(DOMAIN Get(sent', "attachments").v) = 1
        /\ (calls' = calls + 1 /\ HasKey(sent', "update")) =>
             (pc = "update" /\ total_steps >= 1 /\ total_steps' = total_steps)
      ]_vars

\* C25 witness: the update after reading f was sent with the one attachment
\* under "f", and answered.
C25_Witness ==
    /\ pc = "ceiling"
    /\ TypeOf(action) = JStr("leia_arquivo")
    /\ Get(sent, "executed_action") = action
    /\ Get(sent, "attachments") = JObj("f" :> JStr("aW5zaWRl"))
    /\ calls = 2 /\ total_steps = 1

\* C26: total_steps <= requests_made in every reachable state: an action
\* is counted only from a reply that was received, and the response put in
\* place of a failed update names none; so the actions counted are at most
\* max(1, max_requests).
C26_StepsWithinRequests ==
    /\ total_steps <= requests_made
    /\ total_steps <= Max(1, max_requests(config))

\* C26 witness: three requests allowed, three replies received, each with an
\* action that was counted, and one call more that failed in between.
C26_Witness ==
    /\ pc = "exit"
    /\ max_requests(config) = 3
    /\ total_steps = 3 /\ requests_made = 3
    /\ calls = 4

\* C27: whatever the budget and whatever the endpoint does at each call
\* (a reply, an empty reply, a failure), main reaches its end.
C27_LoopEnds ==
    <>(pc = "exit")

\* C27 witness: with three requests allowed, every call of the loop failed
\* (the update, then the request for next steps) and main ended with the
\* budget unspent.
C27_Witness ==
    /\ pc = "exit" /\ outcome = "ok"
    /\ max_requests(config) = 2
    /\ requests_made = 1 /\ calls = 3
    /\ total_steps = 1

\* C28: the action of a reply is executed at most once. Steps are counted
\* at the top of the loop only; the loop comes back to its top only through a
\* gateway call, and then either a new reply was received or the response in
\* place names no action; after a failed update in particular the response
\* names none, and the next iteration counts and executes nothing.
C28_ExecutedOnce ==
    [][ /\ total_steps' # total_steps => (pc = "loop" /\ total_steps' = total_steps + 1)
        /\ (pc = "loop" /\ Truthy(CurrentAction(response))) => pc' \in {"update", "exit"}
        /\ (pc' = "ceiling" /\ pc # "ceiling") =>
             /\ calls' = calls + 1
             /\ requests_made' = requests_made + 1 \/ ~Truthy(CurrentAction(response'))
        /\ pc' = "loop" => pc \in {"first_call", "ceiling"}
        /\ CallFailedAt("update") =>
             /\ ~Truthy(CurrentAction(response'))
             /\ total_steps' = total_steps /\ files' = files
        /\ (pc = "loop" /\ ~Truthy(CurrentAction(response))) =>
             /\ pc' = "ask"
             /\ total_steps' = total_steps
             /\ attachments' = attachments /\ files' = files
      ]_vars

\* C28 witness: f was read once, the update for it failed, and the loop came
\* round to ask for next steps with still one step counted.
C28_Witness ==
    /\ pc = "ask"
    /\ IsDict(response) /\ Get(response, "status") = JStr("error")
    /\ DOMAIN attachments.v = {"f"}
    /\ total_steps = 1
    /\ calls = 2 /\ requests_made = 1

\* C29: the first call is one plain invoke_model: it fails exactly when its
\* one request fails, whatever the endpoint would have answered next, and
\* with a generate-content endpoint a first reply without candidate text is
\* handed to the normalizer as received. A call of the loop meeting the same
\* endpoint goes through up to 5 attempts: it returns at the first that does
\* not fail, after backing off, and fails only when all 5 failed.
C29_FirstCallOnce ==
    probe.op = "first_call" =>
        /\ probe.first.raised <=> probe.kinds[1] = "error"
        /\ probe.kinds[1] \in {"null", "reply", "blank"} =>
             probe.first = HttpOfKind(probe.kinds[1])
        /\ probe.kinds[1] \in {"reply", "blank"} =>
             /\ ~probe.first_normalized.raised
             /\ \A key \in DOMAIN probe.first.val.v :
                  Get(probe.first_normalized.val, key) = probe.first.val.v[key]
        /\ probe.kinds[1] = "null" => probe.first_normalized.raised
        /\ probe.later.attempts \in 1..MaxRetries
        /\ probe.later.raised <=> \A i \in 1..MaxRetries : FailedAttempt(i)
        /\ ~probe.later.raised =>
             /\ ~FailedAttempt(probe.later.attempts)
             /\ \A i \in 1..(probe.later.attempts - 1) : FailedAttempt(i)
             /\ Len(probe.later.slept) = probe.later.attempts - 1

\* C29 witness: a generate-content endpoint that answers without text four
\* times and with text the fifth: the first call took the first reply as it
\* was, a call of the loop got the text at its fifth attempt.
C29_Witness ==
    /\ probe.op = "first_call"
    /\ probe.is_generate_content
    /\ probe.kinds = <<"blank", "error", "null", "reply", "text">>
    /\ probe.first = Returned(CandidateReply(""))
    /\ probe.later.attempts = 5 /\ probe.later.val = JStr("hello")

=============================================================================
